---- MODULE Spec2Model ----
\* Model of apps/indexer/src/starknet_indexer/events.rs: the decoding of one
\* raw Starknet bridge event into (request, audit event, cross-chain txs).
\*
\* A FieldElement is kept as its 64 hexadecimal nibbles, most significant
\* first (the 256-bit representation the formatter walks).  A String is a
\* sequence of one-character strings.  A Result is a record with a tag
\* ("Ok", "Err" for a returned error, "Panic" for an abort of the thread).
EXTENDS Integers, Sequences, FiniteSets, TLC

VARIABLES fn, args, ret

vars == <<fn, args, ret>>

----------------------------------------------------------------------------
\* Bounds of the explored inputs.

MaxKeys == 5
MaxData == 8
MaxSlice == 5

----------------------------------------------------------------------------
\* Rust values.

Ok(v) == [tag |-> "Ok", val |-> v]

Err(e) == [tag |-> "Err", val |-> e]

Panic(m) == [tag |-> "Panic", val |-> m]

None == <<>>

Some(v) == <<v>>

Min(a, b) == IF a < b THEN a ELSE b

\* Number of nibbles of a FieldElement's 256-bit representation.
FeltNibbles == 64

\* Number of nibbles of a u128 and of a u64.
U128Nibbles == 32

U64Nibbles == 16

HexChars ==
    << "0", "1", "2", "3", "4", "5", "6", "7",
       "8", "9", "a", "b", "c", "d", "e", "f" >>

\* Bitwise and of two nibbles.
NibAnd(a, b) ==
    ((a % 2) * (b % 2))
    + 2 * (((a \div 2) % 2) * ((b \div 2) % 2))
    + 4 * (((a \div 4) % 2) * ((b \div 4) % 2))
    + 8 * (((a \div 8) % 2) * ((b \div 8) % 2))

\* The nibble of weight 16^e of a small natural n (n < 2^31).
NibbleOf(n, e) == IF e < 0 \/ e >= 8 THEN 0 ELSE (n \div (16 ^ e)) % 16

\* A u128 literal as its 32 nibbles.
U128(n) == [i \in 1..U128Nibbles |-> NibbleOf(n, U128Nibbles - i)]

\* h & m on u128.
U128And(h, m) == [i \in 1..U128Nibbles |-> NibAnd(h[i], m[i])]

----------------------------------------------------------------------------
\* Constants of the program.

DEPOSIT_REQUEST_INITIATED_SELECTOR ==
    << "0", "x", "1", "6", "8", "2", "c", "c", "d", "c", "9", "0", "f",
       "b", "e", "e", "2", "d", "6", "c", "c", "3", "e", "9", "3", "0",
       "5", "3", "9", "c", "b", "4", "c", "a", "2", "9", "3", "9", "0",
       "a", "4", "3", "8", "d", "b", "1", "c", "2", "e", "4", "c", "7",
       "d", "4", "9", "3", "e", "0", "1", "a", "6", "1", "a", "b", "b" >>

WITHDRAW_REQUEST_COMPLETED_SELECTOR ==
    << "0", "x", "1", "3", "2", "a", "a", "b", "9", "7", "1", "4", "c",
       "2", "6", "5", "c", "8", "a", "d", "1", "5", "1", "c", "e", "0",
       "0", "6", "b", "b", "9", "1", "6", "9", "1", "1", "0", "0", "7",
       "2", "2", "d", "d", "e", "c", "4", "2", "e", "7", "e", "e", "9",
       "6", "d", "c", "9", "d", "f", "a", "9", "e", "7", "4", "1", "c" >>

\* 0x01000000
REQUEST_HEADER_WITHDRAW_AUTO == 16777216

\* 0x010000
REQUEST_HEADER_BURN_AUTO == 65536

----------------------------------------------------------------------------
\* Felt codec.

\* Index of the first non-zero nibble of fe, FeltNibbles + 1 when fe is zero.
FirstNonZero(fe) ==
    IF \A i \in 1..FeltNibbles : fe[i] = 0
    THEN FeltNibbles + 1
    ELSE CHOOSE i \in 1..FeltNibbles :
            fe[i] # 0 /\ \A j \in 1..(i - 1) : fe[j] = 0

\* format!("{:x}", fe) with the flags of the format specification: `#`
\* (alternate) writes the "0x" prefix; the width pads with zeros only when
\* the `0` flag is given, and is otherwise not used: the digits then start
\* at the first non-zero nibble (one digit for zero).
LowerHex(fe, alternate, zero_pad, width_arg) ==
    LET width == IF zero_pad THEN Min(width_arg, FeltNibbles) ELSE 1
        start == Min(FirstNonZero(fe), FeltNibbles - width + 1)
        digits == [j \in 1..(FeltNibbles - start + 1) |->
                      HexChars[fe[start + j - 1] + 1]]
    IN  (IF alternate THEN << "0", "x" >> ELSE << >>) \o digits

\* format!("{:#64x}", fe)
felt_to_hex(fe) == LowerHex(fe, TRUE, FALSE, 64)

\* u256_to_hex reading the last felt of the slice instead of the first.
u256_to_hex_last(felts) ==
    IF Len(felts) < 2
    THEN Err("InsufficientElements")
    ELSE Ok(LowerHex(felts[2], TRUE, FALSE, 32)
            \o LowerHex(felts[Len(felts)], FALSE, FALSE, 32))

\* u256_to_hex writing the first felt of the slice first.
u256_to_hex_first_then_second(felts) ==
    IF Len(felts) < 2
    THEN Err("InsufficientElements")
    ELSE Ok(LowerHex(felts[1], TRUE, FALSE, 32)
            \o LowerHex(felts[2], FALSE, FALSE, 32))

\* format!("{:#32x}{:32x}", felts[1], felts[0]) (indices from 0 in the code).
u256_to_hex(felts) ==
    IF Len(felts) < 2
    THEN Err("InsufficientElements")
    ELSE Ok(LowerHex(felts[2], TRUE, FALSE, 32)
            \o LowerHex(felts[1], FALSE, FALSE, 32))

\* FieldElement::try_into::<u128>(): the error is the conversion's "value out
\* of range", the same for every integer width.
felt_to_u128(fe) ==
    IF \A i \in 1..(FeltNibbles - U128Nibbles) : fe[i] = 0
    THEN Ok([i \in 1..U128Nibbles |-> fe[FeltNibbles - U128Nibbles + i]])
    ELSE Err("ValueOutOfRange")

\* FieldElement::try_into() to the audit event's block_timestamp.
felt_to_u64(fe) ==
    IF \A i \in 1..(FeltNibbles - U64Nibbles) : fe[i] = 0
    THEN Ok([i \in 1..U64Nibbles |-> fe[FeltNibbles - U64Nibbles + i]])
    ELSE Err("ValueOutOfRange")

\* serde_json::to_string of an array of strings: ["s1","s2",...]
RECURSIVE JsonItems(_)
JsonItems(strs) ==
    IF strs = << >> THEN << >>
    ELSE << "\"" >> \o Head(strs) \o << "\"" >>
         \o (IF Len(strs) > 1 THEN << "," >> ELSE << >>)
         \o JsonItems(Tail(strs))

json_to_string(strs) == << "[" >> \o JsonItems(strs) \o << "]" >>

----------------------------------------------------------------------------
\* Field extractor.

\* deposit_request with the layout of a withdraw.
deposit_request_withdraw_layout(hash, data, content) ==
    [hash |-> hash,
     chain_src |-> "Starknet",
     collection_src |-> felt_to_hex(data[4]),
     collection_dst |-> felt_to_hex(data[5]),
     from |-> felt_to_hex(data[6]),
     to |-> felt_to_hex(data[7]),
     content |-> content]

\* The Request of EventLabel::DepositInitiatedL2 (data[k] of the code is
\* data[k + 1] here).
deposit_request(hash, data, content) ==
    [hash |-> hash,
     chain_src |-> "Starknet",
     collection_src |-> felt_to_hex(data[5]),
     collection_dst |-> felt_to_hex(data[4]),
     from |-> felt_to_hex(data[7]),
     to |-> felt_to_hex(data[6]),
     content |-> content]

\* The Request of EventLabel::WithdrawCompletedL2.
withdraw_request(hash, data, content) ==
    [hash |-> hash,
     chain_src |-> "Ethereum",
     collection_src |-> felt_to_hex(data[4]),
     collection_dst |-> felt_to_hex(data[5]),
     from |-> felt_to_hex(data[6]),
     to |-> felt_to_hex(data[7]),
     content |-> content]

\* The match on the label, after the length check.
build_request(event_label, data) ==
    LET content == json_to_string([i \in 1..Len(data) |-> felt_to_hex(data[i])])
        hash_r == u256_to_hex(Tail(data))
    IN  IF event_label = "DepositInitiatedL2"
        THEN IF hash_r.tag # "Ok" THEN hash_r
             ELSE Ok(deposit_request(hash_r.val, data, content))
        ELSE IF event_label = "WithdrawCompletedL2"
        THEN IF hash_r.tag # "Ok" THEN hash_r
             ELSE Ok(withdraw_request(hash_r.val, data, content))
        ELSE Err("UnsupportedLabel")

\* request_from_event_data asking for one felt more.
request_from_event_data_min8(event_label, data) ==
    IF Len(data) < 8
    THEN Err("MalformedEvent")
    ELSE build_request(event_label, data)

request_from_event_data(event_label, data) ==
    IF Len(data) < 7
    THEN Err("MalformedEvent")
    ELSE build_request(event_label, data)

----------------------------------------------------------------------------
\* Header flag decoder.

CrossChainTx(kind, req_hash, req_content) ==
    [chain |-> "Ethereum",
     kind |-> kind,
     req_hash |-> req_hash,
     req_content |-> req_content,
     tx_hash |-> << >>]

\* get_xchain_txs pushing the BurnAuto tx first.
get_xchain_txs_burn_first(header, req_hash, req_content) ==
    LET h_r == felt_to_u128(header) IN
    IF h_r.tag # "Ok" THEN h_r
    ELSE
    LET h == h_r.val
        withdraw_mask == U128(REQUEST_HEADER_WITHDRAW_AUTO)
        burn_mask == U128(REQUEST_HEADER_BURN_AUTO)
        can_withdraw_auto == U128And(h, withdraw_mask) = withdraw_mask
        can_burn_auto == U128And(h, burn_mask) = burn_mask
    IN  Ok((IF can_burn_auto
            THEN << CrossChainTx("BurnAuto", req_hash, req_content) >>
            ELSE << >>)
           \o
           (IF can_withdraw_auto
            THEN << CrossChainTx("WithdrawAuto", req_hash, req_content) >>
            ELSE << >>))

get_xchain_txs(header, req_hash, req_content) ==
    LET h_r == felt_to_u128(header) IN
    IF h_r.tag # "Ok" THEN h_r
    ELSE
    LET h == h_r.val
        withdraw_mask == U128(REQUEST_HEADER_WITHDRAW_AUTO)
        burn_mask == U128(REQUEST_HEADER_BURN_AUTO)
        can_withdraw_auto == U128And(h, withdraw_mask) = withdraw_mask
        can_burn_auto == U128And(h, burn_mask) = burn_mask
    IN  Ok((IF can_withdraw_auto
            THEN << CrossChainTx("WithdrawAuto", req_hash, req_content) >>
            ELSE << >>)
           \o
           (IF can_burn_auto
            THEN << CrossChainTx("BurnAuto", req_hash, req_content) >>
            ELSE << >>))

----------------------------------------------------------------------------
\* Record builder.

\* deposit_arm without the assertion on the hashes.
deposit_arm_no_assert(event, store_event) ==
    LET labelled == [store_event EXCEPT !.label = "DepositInitiatedL2"]
        request_r == request_from_event_data(labelled.label, event.data)
    IN  IF request_r.tag # "Ok" THEN request_r
        ELSE
        LET request == request_r.val
            txs_r == get_xchain_txs(event.data[1], request.hash, request.content)
        IN  IF txs_r.tag # "Ok" THEN txs_r
            ELSE Ok(<< Some(request), Some(labelled), txs_r.val >>)

\* deposit_arm asserting the hashes before it decodes the header.
deposit_arm_assert_first(event, store_event) ==
    LET labelled == [store_event EXCEPT !.label = "DepositInitiatedL2"]
        request_r == request_from_event_data(labelled.label, event.data)
    IN  IF request_r.tag # "Ok" THEN request_r
        ELSE
        LET request == request_r.val
            txs_r == get_xchain_txs(event.data[1], request.hash, request.content)
        IN  IF request.hash # labelled.req_hash
            THEN Panic("HashMismatch")
            ELSE IF txs_r.tag # "Ok" THEN txs_r
            ELSE Ok(<< Some(request), Some(labelled), txs_r.val >>)

\* The DEPOSIT_REQUEST_INITIATED_SELECTOR arm of the match.
deposit_arm(event, store_event) ==
    LET labelled == [store_event EXCEPT !.label = "DepositInitiatedL2"]
        request_r == request_from_event_data(labelled.label, event.data)
    IN  IF request_r.tag # "Ok" THEN request_r
        ELSE
        LET request == request_r.val
            txs_r == get_xchain_txs(event.data[1], request.hash, request.content)
        IN  IF txs_r.tag # "Ok" THEN txs_r
            ELSE IF request.hash # labelled.req_hash
            THEN Panic("HashMismatch")
            ELSE Ok(<< Some(request), Some(labelled), txs_r.val >>)

\* withdraw_arm decoding the header as the deposit arm does.
withdraw_arm_with_txs(event, store_event) ==
    LET labelled == [store_event EXCEPT !.label = "WithdrawCompletedL2"]
        request_r == request_from_event_data(labelled.label, event.data)
    IN  IF request_r.tag # "Ok" THEN request_r
        ELSE
        LET request == request_r.val
            txs_r == get_xchain_txs(event.data[1], request.hash, request.content)
        IN  IF txs_r.tag # "Ok" THEN txs_r
            ELSE IF request.hash # labelled.req_hash
            THEN Panic("HashMismatch")
            ELSE Ok(<< Some(request), Some(labelled), txs_r.val >>)

\* The WITHDRAW_REQUEST_COMPLETED_SELECTOR arm of the match.
withdraw_arm(event, store_event) ==
    LET labelled == [store_event EXCEPT !.label = "WithdrawCompletedL2"]
        request_r == request_from_event_data(labelled.label, event.data)
    IN  IF request_r.tag # "Ok" THEN request_r
        ELSE
        LET request == request_r.val
        IN  IF request.hash # labelled.req_hash
            THEN Panic("HashMismatch")
            ELSE Ok(<< Some(request), Some(labelled), << >> >>)

get_store_data(event) ==
    IF Len(event.keys) < 1
    THEN Panic("IndexOutOfBounds")          \* &event.keys[1..]
    ELSE
    LET hash_r == u256_to_hex(Tail(event.keys)) IN
    IF hash_r.tag # "Ok" THEN hash_r
    ELSE IF Len(event.keys) < 4
    THEN Panic("IndexOutOfBounds")          \* event.keys[3]
    ELSE IF Len(event.data) < 1
    THEN Panic("IndexOutOfBounds")          \* event.data[0]
    ELSE
    LET ts_r == felt_to_u64(event.keys[4]) IN
    IF ts_r.tag # "Ok" THEN ts_r
    ELSE
    LET store_event == [req_hash |-> hash_r.val,
                        label |-> "DepositInitiatedL2",
                        block_timestamp |-> ts_r.val,
                        block_number |-> event.block_number,
                        tx_hash |-> felt_to_hex(event.transaction_hash)]
        selector == felt_to_hex(event.keys[1])
    IN  IF selector = DEPOSIT_REQUEST_INITIATED_SELECTOR
        THEN deposit_arm(event, store_event)
        ELSE IF selector = WITHDRAW_REQUEST_COMPLETED_SELECTOR
        THEN withdraw_arm(event, store_event)
        ELSE Ok(<< None, None, << >> >>)

----------------------------------------------------------------------------
\* Inputs: the raw events and values the operations are applied to.

\* The FieldElement of a small natural n (n < 2^31).
Felt(n) == [i \in 1..FeltNibbles |-> NibbleOf(n, FeltNibbles - i)]

\* The FieldElement n * 16^k.
FeltShl(n, k) == [i \in 1..FeltNibbles |-> NibbleOf(n, FeltNibbles - i - k)]

\* The FieldElement 16^k - 1: its k low nibbles are all f.
FeltOnes(k) == [i \in 1..FeltNibbles |-> IF i > FeltNibbles - k THEN 15 ELSE 0]

\* a + b for FieldElements with no nibble in common.
FeltSum(a, b) == [i \in 1..FeltNibbles |-> a[i] + b[i]]

HexDigitVal(c) == CHOOSE d \in 0..15 : HexChars[d + 1] = c

\* FieldElement::from_hex_be of a "0x..." string.
FeltFromHex(str) ==
    LET n == Len(str) - 2 IN
    [i \in 1..FeltNibbles |->
        IF i <= FeltNibbles - n THEN 0
        ELSE HexDigitVal(str[2 + i - (FeltNibbles - n)])]

DepositSelector == FeltFromHex(DEPOSIT_REQUEST_INITIATED_SELECTOR)

WithdrawSelector == FeltFromHex(WITHDRAW_REQUEST_COMPLETED_SELECTOR)

\* keys[0]: the two recognized selectors and two others.
Selectors == { DepositSelector, WithdrawSelector, Felt(5), Felt(0) }

\* The two halves of a request hash, in the order they are serialized.  The
\* first and the third are different values with the same u256_to_hex.
HashPairs ==
    { << Felt(26), Felt(2) >>, << Felt(2), Felt(26) >>, << Felt(10), Felt(33) >> }

\* keys[3]: 2^64 - 1 is the largest timestamp that fits, 2^64 does not fit.
Timestamps == { Felt(1700000000), FeltOnes(U64Nibbles), FeltShl(1, U64Nibbles) }

BothFlags == REQUEST_HEADER_WITHDRAW_AUTO + REQUEST_HEADER_BURN_AUTO

\* data[0]: no flag, each flag, both flags, other bits only (0x02fe00ff),
\* every bit of a u128, and two values of more than 128 bits.
Headers ==
    { Felt(0),
      Felt(REQUEST_HEADER_WITHDRAW_AUTO),
      Felt(REQUEST_HEADER_BURN_AUTO),
      Felt(BothFlags),
      Felt(50200831),
      FeltOnes(U128Nibbles),
      FeltShl(1, U128Nibbles),
      FeltSum(FeltShl(1, U128Nibbles), Felt(BothFlags)) }

\* The first n felts of an event's data: header, hash, then distinct fields.
DataOf(header, pair, n) ==
    [i \in 1..n |->
        IF i = 1 THEN header
        ELSE IF i = 2 THEN pair[1]
        ELSE IF i = 3 THEN pair[2]
        ELSE Felt(192 + i)]

\* The first n felts of an event's keys.
KeysOf(selector, pair, timestamp, n) ==
    [i \in 1..n |->
        IF i = 1 THEN selector
        ELSE IF i = 2 THEN pair[1]
        ELSE IF i = 3 THEN pair[2]
        ELSE IF i = 4 THEN timestamp
        ELSE Felt(i)]

EmittedEvent(keys, data) ==
    [keys |-> keys,
     data |-> data,
     block_number |-> 7,
     transaction_hash |-> Felt(2748)]

DataSeqs ==
    { DataOf(h, p, n) : h \in Headers, p \in HashPairs, n \in 0..MaxData }

\* Events with the four keys the decoder reads, and possibly more.
Events ==
    { EmittedEvent(KeysOf(s, kp, ts, MaxKeys - (n % 2)), DataOf(h, dp, n)) :
        s \in Selectors \ {Felt(0)}, kp \in HashPairs, ts \in Timestamps,
        h \in Headers, dp \in HashPairs, n \in 0..MaxData }

\* Events with fewer keys than the decoder reads.
ShortEvents ==
    { EmittedEvent(KeysOf(s, kp, Felt(1700000000), nk), DataOf(Felt(0), kp, nd)) :
        s \in Selectors, kp \in HashPairs, nk \in 0..3, nd \in {0, 7} }

Labels == { "DepositInitiatedL2", "WithdrawCompletedL2", "DepositInitiatedL1" }

SliceFelts == { Felt(0), Felt(26), FeltShl(3, 40) }

RECURSIVE SeqsUpTo(_, _)
SeqsUpTo(S, n) ==
    IF n = 0 THEN { << >> }
    ELSE LET shorter == SeqsUpTo(S, n - 1) IN
         shorter \cup { Append(q, x) : q \in { t \in shorter : Len(t) = n - 1 }, x \in S }

Slices == SeqsUpTo(SliceFelts, MaxSlice)

SampleFelts ==
    Headers \cup Selectors \cup Timestamps \cup SliceFelts
    \cup { Felt(1), Felt(16), Felt(171), FeltShl(8, 62), FeltOnes(62) }

SampleStrings == { << "0", "x", "2", "1", "a" >>, << >>, << "[", "]" >> }

----------------------------------------------------------------------------
\* The state machine: the caller applies one function to one input, takes
\* the result, and goes on to the next call.

Init ==
    /\ fn = "none"
    /\ args = << >>
    /\ ret = << >>

CallGetStoreData ==
    \E event \in Events \cup ShortEvents :
        /\ fn = "none"
        /\ fn' = "get_store_data"
        /\ args' = [event |-> event]
        /\ ret' = get_store_data(event)

CallRequestFromEventData ==
    \E event_label \in Labels, data \in DataSeqs :
        /\ fn = "none"
        /\ fn' = "request_from_event_data"
        /\ args' = [event_label |-> event_label, data |-> data]
        /\ ret' = request_from_event_data(event_label, data)

CallGetXchainTxs ==
    \E header \in Headers, req_hash \in SampleStrings, req_content \in SampleStrings :
        /\ fn = "none"
        /\ fn' = "get_xchain_txs"
        /\ args' = [header |-> header, req_hash |-> req_hash,
                    req_content |-> req_content]
        /\ ret' = get_xchain_txs(header, req_hash, req_content)

CallU256ToHex ==
    \E felts \in Slices :
        /\ fn = "none"
        /\ fn' = "u256_to_hex"
        /\ args' = [felts |-> felts]
        /\ ret' = u256_to_hex(felts)

CallFeltToHex ==
    \E fe \in SampleFelts :
        /\ fn = "none"
        /\ fn' = "felt_to_hex"
        /\ args' = [fe |-> fe]
        /\ ret' = felt_to_hex(fe)

\* The caller has taken the result: the functions keep no state.
Return ==
    /\ fn # "none"
    /\ fn' = "none"
    /\ args' = << >>
    /\ ret' = << >>

Next ==
    \/ CallGetStoreData
    \/ CallRequestFromEventData
    \/ CallGetXchainTxs
    \/ CallU256ToHex
    \/ CallFeltToHex
    \/ Return

Spec == Init /\ [][Next]_vars

----------------------------------------------------------------------------
\* Vocabulary of the properties, written without the operators they check.

\* fe fits in an unsigned integer of n nibbles.
Fits(fe, n) == \A i \in 1..(FeltNibbles - n) : fe[i] = 0

RECURSIVE StripZeros(_)
StripZeros(str) ==
    IF Len(str) > 1 /\ Head(str) = "0" THEN StripZeros(Tail(str)) ELSE str

\* The hexadecimal digits of fe with no leading zero (one digit for zero).
HexDigits(fe) == StripZeros([i \in 1..FeltNibbles |-> HexChars[fe[i] + 1]])

\* Bit b of fe (b = 4 * nibble), the lowest bit of one nibble.
NibbleBitSet(fe, nibble) == fe[FeltNibbles - nibble] % 2 = 1

\* The k-th string of a serialized JSON array of strings.
JsonEntry(str, k) ==
    LET quotes == { i \in 1..Len(str) : str[i] = "\"" }
        nth(n) == CHOOSE i \in quotes : Cardinality({ j \in quotes : j < i }) = n - 1
    IN  SubSeq(str, nth(2 * k - 1) + 1, nth(2 * k) - 1)

JsonEntryCount(str) ==
    Cardinality({ i \in 1..Len(str) : str[i] = "\"" }) \div 2

InGetStoreData == fn = "get_store_data"

IsDeposit(event) ==
    /\ Len(event.keys) >= 4
    /\ << "0", "x" >> \o HexDigits(event.keys[1]) = DEPOSIT_REQUEST_INITIATED_SELECTOR

IsWithdraw(event) ==
    /\ Len(event.keys) >= 4
    /\ << "0", "x" >> \o HexDigits(event.keys[1]) = WITHDRAW_REQUEST_COMPLETED_SELECTOR

\* encodeU256 of keys[1..] and of data[1..] (indices from 0), as the code
\* writes a 256-bit value: "0x", the second felt's digits, the first felt's.
KeyHash(event) ==
    << "0", "x" >> \o HexDigits(event.keys[3]) \o HexDigits(event.keys[2])

DataHash(event) ==
    << "0", "x" >> \o HexDigits(event.data[3]) \o HexDigits(event.data[2])

HashesDiffer(event) == Len(event.data) >= 3 /\ DataHash(event) # KeyHash(event)

ReturnsNothing ==
    /\ ret.tag = "Ok"
    /\ ret.val = << << >>, << >>, << >> >>

----------------------------------------------------------------------------
\* C1: every raw event with at least 4 keys whose keys[0] encodes to neither
\* selector makes get_store_data return exactly (None, None, []), never an
\* error or an abort, whatever keys[3] and the data (empty included) are.
C1_UnrecognizedReturnsNothing ==
    (/\ InGetStoreData
     /\ Len(args.event.keys) >= 4
     /\ ~IsDeposit(args.event)
     /\ ~IsWithdraw(args.event))
    => ReturnsNothing

\* C2 as stated: a returned request has the hash of the audit event and of
\* the keys, and a recognized event whose data hash differs from its key hash
\* ends in the HashMismatch abort.
C2_MismatchAlwaysAborts ==
    InGetStoreData =>
        /\ (ret.tag = "Ok" /\ ret.val[1] # << >>) =>
              /\ ret.val[1][1].hash = ret.val[2][1].req_hash
              /\ ret.val[1][1].hash = KeyHash(args.event)
        /\ ((IsDeposit(args.event) \/ IsWithdraw(args.event))
            /\ HashesDiffer(args.event))
           => (ret.tag = "Panic" /\ ret.val = "HashMismatch")

\* C2 amended: a returned request has the hash of the audit event and of the
\* keys; a recognized event whose data hash differs from its key hash never
\* returns a request, audit event or action, and ends in the HashMismatch
\* abort exactly when the earlier checks pass: keys[3] fits in 64 bits, the
\* data has 7 elements and, for a deposit, data[0] fits in 128 bits.
C2_HashAgreesOrNoResult ==
    InGetStoreData =>
        /\ (ret.tag = "Ok" /\ ret.val[1] # << >>) =>
              /\ ret.val[1][1].hash = ret.val[2][1].req_hash
              /\ ret.val[1][1].hash = KeyHash(args.event)
        /\ ((IsDeposit(args.event) \/ IsWithdraw(args.event))
            /\ HashesDiffer(args.event))
           => /\ ret.tag # "Ok"
              /\ (ret.tag = "Panic" /\ ret.val = "HashMismatch")
                 <=> (/\ Fits(args.event.keys[4], U64Nibbles)
                      /\ Len(args.event.data) >= 7
                      /\ (IsDeposit(args.event)
                          => Fits(args.event.data[1], U128Nibbles)))

\* C2: a deposit event whose data hash differs from the key hash, aborted by
\* the assertion.
C2_Witness ==
    /\ InGetStoreData
    /\ IsDeposit(args.event)
    /\ HashesDiffer(args.event)
    /\ ret.tag = "Panic"
    /\ ret.val = "HashMismatch"

\* The CrossChainTx the header decoder is to push.
ExpectedTx(kind) ==
    [chain |-> "Ethereum",
     kind |-> kind,
     req_hash |-> args.req_hash,
     req_content |-> args.req_content,
     tx_hash |-> << >>]

\* C3: for a header that fits in 128 bits, get_xchain_txs returns one
\* WithdrawAuto tx iff bit 24 is set, followed by one BurnAuto tx iff bit 16
\* is set, each for Ethereum with the given hash and content and no tx_hash.
C3_HeaderFlagsDecoded ==
    (fn = "get_xchain_txs" /\ Fits(args.header, U128Nibbles)) =>
        /\ ret.tag = "Ok"
        /\ ret.val =
              (IF NibbleBitSet(args.header, 6)
               THEN << ExpectedTx("WithdrawAuto") >> ELSE << >>)
              \o
              (IF NibbleBitSet(args.header, 4)
               THEN << ExpectedTx("BurnAuto") >> ELSE << >>)
        /\ Len(ret.val) <= 2

\* C3: a header with both flags and other bits set, decoded into two txs.
C3_Witness ==
    /\ fn = "get_xchain_txs"
    /\ args.header = FeltOnes(U128Nibbles)
    /\ args.req_hash # << >>
    /\ ret.tag = "Ok"
    /\ Len(ret.val) = 2
    /\ ret.val[1].kind = "WithdrawAuto"
    /\ ret.val[2].kind = "BurnAuto"

WithdrawReturned ==
    /\ ret.tag = "Ok"
    /\ Len(ret.val[1]) = 1
    /\ Len(ret.val[2]) = 1
    /\ ret.val[2][1].label = "WithdrawCompletedL2"
    /\ ret.val[3] = << >>

WellFormedWithdraw(event) ==
    /\ IsWithdraw(event)
    /\ Len(event.data) >= 7
    /\ DataHash(event) = KeyHash(event)

\* C4 as stated: every WithdrawCompleted event with at least 4 keys, at least
\* 7 data elements and matching hashes returns a request, an audit event
\* labelled WithdrawCompleted and no action, for every data[0].
C4_WithdrawAlwaysReturned ==
    (InGetStoreData /\ WellFormedWithdraw(args.event)) => WithdrawReturned

\* C4 amended: the same for every such event whose keys[3] fits in the 64
\* bits of the audit event's timestamp.
C4_WithdrawHasNoTxs ==
    (/\ InGetStoreData
     /\ WellFormedWithdraw(args.event)
     /\ Fits(args.event.keys[4], U64Nibbles))
    => WithdrawReturned

\* C4: a withdraw whose header has both flags and more than 128 bits.
C4_Witness ==
    /\ InGetStoreData
    /\ WellFormedWithdraw(args.event)
    /\ ~Fits(args.event.data[1], U128Nibbles)
    /\ NibbleBitSet(args.event.data[1], 6)
    /\ NibbleBitSet(args.event.data[1], 4)
    /\ WithdrawReturned

\* C5: for at least 7 data elements the request has the layout of its label:
\* a deposit is from Starknet with collection_src = data[4], collection_dst =
\* data[3], from = data[6], to = data[5]; a withdraw is from Ethereum with
\* data[3], data[4], data[5], data[6]; the hash is that of data[1], data[2]
\* and content lists the encoding of every data element, in order.
C5_RequestLayout ==
    (/\ fn = "request_from_event_data"
     /\ args.event_label \in { "DepositInitiatedL2", "WithdrawCompletedL2" }
     /\ Len(args.data) >= 7)
    =>
    LET d(k) == << "0", "x" >> \o HexDigits(args.data[k + 1])
        deposit == args.event_label = "DepositInitiatedL2"
        req == ret.val
    IN  /\ ret.tag = "Ok"
        /\ req.chain_src = IF deposit THEN "Starknet" ELSE "Ethereum"
        /\ req.collection_src = IF deposit THEN d(4) ELSE d(3)
        /\ req.collection_dst = IF deposit THEN d(3) ELSE d(4)
        /\ req.from = IF deposit THEN d(6) ELSE d(5)
        /\ req.to = IF deposit THEN d(5) ELSE d(6)
        /\ req.hash = << "0", "x" >> \o HexDigits(args.data[3])
                          \o HexDigits(args.data[2])
        /\ JsonEntryCount(req.content) = Len(args.data)
        /\ \A k \in 1..Len(args.data) :
              JsonEntry(req.content, k) = << "0", "x" >> \o HexDigits(args.data[k])
        /\ Head(req.content) = "["
        /\ req.content[Len(req.content)] = "]"

\* C5: a deposit request built from more than 7 data elements.
C5_Witness ==
    /\ fn = "request_from_event_data"
    /\ args.event_label = "DepositInitiatedL2"
    /\ Len(args.data) > 7
    /\ ret.tag = "Ok"
    /\ ret.val.collection_src # ret.val.collection_dst
    /\ ret.val.from # ret.val.to

\* C6: for the two labels, request_from_event_data fails with MalformedEvent
\* iff the data has fewer than 7 elements, and succeeds otherwise.
C6_MalformedIffShort ==
    (/\ fn = "request_from_event_data"
     /\ args.event_label \in { "DepositInitiatedL2", "WithdrawCompletedL2" })
    =>
    /\ (ret.tag = "Err" /\ ret.val = "MalformedEvent") <=> Len(args.data) < 7
    /\ Len(args.data) >= 7 => ret.tag = "Ok"

\* C6: the shortest data a request is built from.
C6_Witness ==
    /\ fn = "request_from_event_data"
    /\ args.event_label = "WithdrawCompletedL2"
    /\ Len(args.data) = 7
    /\ ret.tag = "Ok"

\* C7: u256_to_hex fails with InsufficientElements iff the slice has fewer
\* than 2 elements, and every slice with the same first two elements has the
\* same result.
C7_OnlyFirstTwoFelts ==
    fn = "u256_to_hex" =>
        /\ (ret.tag = "Err" /\ ret.val = "InsufficientElements")
           <=> Len(args.felts) < 2
        /\ Len(args.felts) >= 2 =>
              /\ ret.tag = "Ok"
              /\ \A other \in Slices :
                    (/\ Len(other) >= 2
                     /\ other[1] = args.felts[1]
                     /\ other[2] = args.felts[2])
                    => u256_to_hex(other) = ret

\* C7: a slice of more than two different elements.
C7_Witness ==
    /\ fn = "u256_to_hex"
    /\ Len(args.felts) >= 5
    /\ args.felts[5] # args.felts[1]
    /\ ret.tag = "Ok"

FeltToHexMinimalDigits ==
    fn = "felt_to_hex" =>
        /\ \A other \in SampleFelts : felt_to_hex(other) = ret => other = args.fe
        /\ ret = << "0", "x" >> \o HexDigits(args.fe)
        /\ Len(ret) >= 3
        /\ Len(ret) <= 2 + FeltNibbles
        /\ Len(ret) > 3 => ret[3] # "0"

\* Zero is encoded in three characters.
FeltToHexOfZero ==
    /\ fn = "felt_to_hex"
    /\ args.fe = Felt(0)
    /\ ret = << "0", "x", "0" >>

\* C9 as stated: the output is "0x", the digits of slice[0] (high), then the
\* digits of slice[1] (low), with no second prefix.
C9_FirstFeltIsHigh ==
    (fn = "u256_to_hex" /\ Len(args.felts) >= 2) =>
        /\ ret.tag = "Ok"
        /\ ret.val = << "0", "x" >> \o HexDigits(args.felts[1])
                        \o HexDigits(args.felts[2])

\* C9 amended: the second element of the slice is the high half and the
\* first the low half: the output is "0x", the digits of slice[1] (high),
\* then the digits of slice[0] (low), with no second prefix.
C9_SecondFeltIsHigh ==
    (fn = "u256_to_hex" /\ Len(args.felts) >= 2) =>
        /\ ret.tag = "Ok"
        /\ ret.val = << "0", "x" >> \o HexDigits(args.felts[2])
                        \o HexDigits(args.felts[1])

\* C9: a slice whose first two elements differ and are not zero.
C9_Witness ==
    /\ fn = "u256_to_hex"
    /\ Len(args.felts) >= 2
    /\ args.felts[1] = Felt(26)
    /\ args.felts[2] = FeltShl(3, 40)
    /\ ret.tag = "Ok"

\* C10: a deposit event with at least 4 keys and 7 data elements whose
\* data[0] does not fit in 128 bits returns the conversion's error and no
\* request, audit event or action, whether its hashes agree or not; the
\* HashMismatch abort of a deposit is reached only when the header decoded.
C10_HeaderBeforeHash ==
    (InGetStoreData /\ IsDeposit(args.event)) =>
        /\ (Len(args.event.data) >= 7 /\ ~Fits(args.event.data[1], U128Nibbles))
           => (ret.tag = "Err" /\ ret.val = "ValueOutOfRange")
        /\ (ret.tag = "Panic" /\ ret.val = "HashMismatch")
           => (Len(args.event.data) >= 7 /\ Fits(args.event.data[1], U128Nibbles))

\* C10: a deposit with a header of more than 128 bits and a data hash that
\* differs from the key hash, returned as an error.
C10_Witness ==
    /\ InGetStoreData
    /\ IsDeposit(args.event)
    /\ Len(args.event.data) >= 7
    /\ ~Fits(args.event.data[1], U128Nibbles)
    /\ Fits(args.event.keys[4], U64Nibbles)
    /\ HashesDiffer(args.event)
    /\ ret.tag = "Err"
    /\ ret.val = "ValueOutOfRange"

====
